---- MODULE Spec2Model ----
(***************************************************************************)
(* URL indexation checker: the URL validator and classifier                *)
(* (services/indexation.service.js), the CSV table (URLModel, listed in    *)
(* README.md), and the check cycle run by the daily trigger and by         *)
(* POST /urls/check (config/scheduler.js, controllers/url.controller.js).  *)
(*                                                                         *)
(* JavaScript strings are TLA+ strings.  The value `undefined` is the      *)
(* string Undefined, which is no string of the bounded input sets.         *)
(***************************************************************************)
EXTENDS Integers, Sequences, FiniteSets, TLC

VARIABLES
    \* ---- classifier runs (SpecClassify) ----
    cUrl,       \* argument of the last checkIndexation call
    cNet,       \* what the network answers to a request for cUrl
    cValid,     \* what isValidURL answered for cUrl
    cRes,       \* completion of that call
    mUrls,      \* argument of the last checkMultipleURLs call
    mNets,      \* what the network answers to the i-th request candidate
    mRes,       \* completion of that call
    \* ---- table operations in isolation (SpecStore) ----
    sFile,      \* data/urls.csv: absent, or its rows under the header
    sInput,     \* the record list drawn for writeAllURLs
    sOp,        \* the operations applied so far, oldest first
    sBefore,    \* what readAllURLs returned just before the last operation
    sOut,       \* value the last operation resolved with
    sArgs,      \* arguments of the last updateURLStatus call
    \* ---- the running server (Spec) ----
    table,      \* data/urls.csv: absent, or its rows under the header
    pc,         \* where each check cycle stands
    urlsOf,     \* each cycle's `urls`: what its readAllURLs resolved with
    resultsOf,  \* each cycle's `results` inside checkMultipleURLs
    updatedOf,  \* each cycle's `updatedUrls`
    upc,        \* where the upload request stands
    upUrls,     \* the upload's `urls`
    lastWrite,  \* the record list of the writeAllURLs that resolved last
    inflight    \* each cycle's pending checkIndexation calls (positions)

varsC == <<cUrl, cNet, cValid, cRes, mUrls, mNets, mRes>>
varsS == <<sFile, sInput, sOp, sBefore, sOut, sArgs>>
varsY == <<table, pc, urlsOf, resultsOf, updatedOf, upc, upUrls, lastWrite, inflight>>
vars == <<cUrl, cNet, cValid, cRes, mUrls, mNets, mRes,
          sFile, sInput, sOp, sBefore, sOut, sArgs,
          table, pc, urlsOf, resultsOf, updatedOf, upc, upUrls, lastWrite, inflight>>

Undefined == "<undefined>"
None == "<none>"

\* ------------------------------------------------------------------------
\* String helpers (String.prototype.includes, String.prototype.substring)
\* ------------------------------------------------------------------------
Min(a, b) == IF a < b THEN a ELSE b

Includes(s, sub) ==
    \E i \in 1..(Len(s) - Len(sub) + 1) : SubSeq(s, i, i + Len(sub) - 1) = sub

Substring(s, from, to) == SubSeq(s, from + 1, Min(to, Len(s)))

\* ------------------------------------------------------------------------
\* new URL(candidate): the runtime's URL parser on the candidates of the
\* model.  ok = FALSE is the TypeError the constructor throws.
\* ------------------------------------------------------------------------
Failed == [ok |-> FALSE, protocol |-> Undefined, hostname |-> Undefined]
Parsed(p, h) == [ok |-> TRUE, protocol |-> p, hostname |-> h]

ParseURL(u) ==
    CASE u = "https://a.example"        -> Parsed("https:", "a.example")
      [] u = "http://b.example/page"    -> Parsed("http:", "b.example")
      [] u = "HTTP://C.EXAMPLE"         -> Parsed("http:", "c.example")
      [] u = " https://a.example"       -> Parsed("https:", "a.example")
      [] u = "ftp://wrong-scheme.com"   -> Parsed("ftp:", "wrong-scheme.com")
      [] u = "htp://wrong-protocol.com" -> Parsed("htp:", "wrong-protocol.com")
      [] u = "mailto:x@a.example"       -> Parsed("mailto:", "")
      [] OTHER                          -> Failed

Candidates ==
    { "https://a.example", "http://b.example/page", "HTTP://C.EXAMPLE",
      " https://a.example", "ftp://wrong-scheme.com", "htp://wrong-protocol.com",
      "mailto:x@a.example", "www.missing-protocol.com", "https://fake website.com",
      "not-a-url-at-all", "", Undefined }

\* ------------------------------------------------------------------------
\* IndexationService.isValidURL
\* ------------------------------------------------------------------------
isValidURL_AnyProtocol(url) ==
    LET urlObj == ParseURL(url) IN
    IF ~urlObj.ok THEN FALSE
    ELSE IF urlObj.hostname = "" \/ Includes(urlObj.hostname, " ") THEN FALSE
    ELSE TRUE

isValidURL(url) ==
    LET urlObj == ParseURL(url) IN
    IF ~urlObj.ok THEN FALSE
    ELSE IF urlObj.protocol \notin {"http:", "https:"} THEN FALSE
    ELSE IF urlObj.hostname = "" \/ Includes(urlObj.hostname, " ") THEN FALSE
    ELSE TRUE

\* ------------------------------------------------------------------------
\* The network: a request ends with a response or with a transport error.
\* ------------------------------------------------------------------------
Statuses == {200, 204, 304, 400, 403, 404, 429, 499, 500, 503}

ErrorCodes ==
    { "ENOTFOUND", "ETIMEDOUT", "ECONNREFUSED", "ECONNABORTED",
      "ERR_INVALID_URL", "ECONNRESET", Undefined }

LongMessage == "unable to verify the first certificate of the remote host in the chain"

ErrorMessages ==
    { "getaddrinfo ENOTFOUND a.example", "timeout of 10000ms exceeded",
      "connect ECONNREFUSED 127.0.0.1:443", "Invalid URL", "socket hang up",
      "", LongMessage, Undefined }

Response(s) == [kind |-> "response", status |-> s, code |-> Undefined, message |-> Undefined]
TransportError(c, m) == [kind |-> "error", status |-> 0, code |-> c, message |-> m]

NetOutcomes ==
    { Response(s) : s \in Statuses }
      \cup { TransportError(c, m) : c \in ErrorCodes, m \in ErrorMessages }

\* validateStatus option passed to axios.get
validateStatus_All(status) == TRUE

validateStatus(status) == status < 500

\* axios.get: a response the validateStatus option refuses is thrown as an error
axios_get(net) ==
    IF net.kind = "response" /\ ~validateStatus(net.status)
    THEN TransportError("ERR_BAD_RESPONSE",
                        "Request failed with status code " \o ToString(net.status))
    ELSE net

\* ------------------------------------------------------------------------
\* IndexationService.checkIndexation
\* ------------------------------------------------------------------------
\* A completion: the {status, notes} the promise resolves with, or raised.
\* requests is the number of axios.get calls the call made.
Resolved(s, n, k) == [raised |-> FALSE, status |-> s, notes |-> n, requests |-> k]
Raised(k) == [raised |-> TRUE, status |-> Undefined, notes |-> Undefined, requests |-> k]

ClassifyResponse_Swapped(status) ==
    IF status = 200 THEN Resolved("Not Indexed", "HTTP 404 - Page not found", 1)
    ELSE IF status = 404
      THEN Resolved("Indexed", "HTTP " \o ToString(status) \o " - Page accessible", 1)
    ELSE IF status = 403 THEN Resolved("Not Indexed", "HTTP 403 - Access forbidden", 1)
    ELSE IF status >= 400
      THEN Resolved("Not Indexed", "HTTP " \o ToString(status) \o " - Client error", 1)
    ELSE Resolved("Not Indexed", "HTTP " \o ToString(status) \o " - Unusual status", 1)

ClassifyResponse(status) ==
    IF status = 200
      THEN Resolved("Indexed", "HTTP " \o ToString(status) \o " - Page accessible", 1)
    ELSE IF status = 404 THEN Resolved("Not Indexed", "HTTP 404 - Page not found", 1)
    ELSE IF status = 403 THEN Resolved("Not Indexed", "HTTP 403 - Access forbidden", 1)
    ELSE IF status >= 400
      THEN Resolved("Not Indexed", "HTTP " \o ToString(status) \o " - Client error", 1)
    ELSE Resolved("Not Indexed", "HTTP " \o ToString(status) \o " - Unusual status", 1)

\* The catch block.  error.message.includes(...) on an error without a
\* message is a TypeError thrown out of the handler.
ClassifyError(error) ==
    IF error.code = "ENOTFOUND"
      THEN Resolved("Invalid URL", "DNS not found - Domain does not exist", 1)
    ELSE IF error.code = "ETIMEDOUT"
      THEN Resolved("Not Indexed", "Connection timeout", 1)
    ELSE IF error.message = Undefined THEN Raised(1)
    ELSE IF Includes(error.message, "timeout")
      THEN Resolved("Not Indexed", "Connection timeout", 1)
    ELSE IF error.code = "ECONNREFUSED"
      THEN Resolved("Invalid URL", "Connection refused", 1)
    ELSE IF Includes(error.message, "Invalid URL")
      THEN Resolved("Invalid URL", "Malformed URL", 1)
    ELSE Resolved("Not Indexed", "Error: " \o Substring(error.message, 0, 50), 1)

\* The try block: one axios.get, then the classification of its outcome.
Probe(url, net) ==
    LET r == axios_get(net) IN
    IF r.kind = "response" THEN ClassifyResponse(r.status) ELSE ClassifyError(r)

checkIndexation_NoValidation(url, net) == Probe(url, net)

checkIndexation(url, net) ==
    IF ~isValidURL(url)
    THEN Resolved("Invalid URL", "Invalid URL format", 0)
    ELSE Probe(url, net)

\* ------------------------------------------------------------------------
\* IndexationService.checkMultipleURLs
\* ------------------------------------------------------------------------
\* The for-of loop from element i on.  A checkIndexation that raises rejects
\* the whole call: the results gathered so far are dropped.
RECURSIVE CheckLoop(_, _, _, _, _)
CheckLoop(urls, nets, i, results, requests) ==
    IF i > Len(urls) THEN [raised |-> FALSE, results |-> results, requests |-> requests]
    ELSE LET urlData == urls[i]
             result == checkIndexation(urlData.url, nets[i])
             asked == IF result.requests > 0 THEN Append(requests, i) ELSE requests
         IN IF result.raised
            THEN [raised |-> TRUE, results |-> <<>>, requests |-> asked]
            ELSE CheckLoop(urls, nets, i + 1,
                           Append(results, [url |-> urlData.url,
                                            status |-> result.status,
                                            notes |-> result.notes]),
                           asked)

checkMultipleURLs_Reversed(urls, nets) ==
    LET r == CheckLoop(urls, nets, 1, <<>>, <<>>) IN
    [r EXCEPT !.results = [i \in 1..Len(r.results) |->
                              r.results[Len(r.results) + 1 - i]]]

checkMultipleURLs(urls, nets) == CheckLoop(urls, nets, 1, <<>>, <<>>)

\* ------------------------------------------------------------------------
\* Classifier runs: one call of checkIndexation or of checkMultipleURLs,
\* with any argument and any answer of the network.
\* ------------------------------------------------------------------------
MaxBatch == 2

NoCompletion == [raised |-> FALSE, status |-> None, notes |-> None, requests |-> 0]
NoBatch == [raised |-> FALSE, results |-> <<>>, requests |-> <<>>]

Record(u, s, l, n) == [url |-> u, status |-> s, lastChecked |-> l, notes |-> n]

BatchRecords ==
    { Record(u, "Pending", "Not yet checked", "") :
        u \in {"https://a.example", "http://b.example/page", "not-a-url-at-all"} }

BatchNets ==
    { Response(200), Response(404), Response(503),
      TransportError("ENOTFOUND", "getaddrinfo ENOTFOUND a.example"),
      TransportError("ECONNREFUSED", Undefined) }

SeqsUpTo(S, n) == UNION { [1..k -> S] : k \in 0..n }

InitC ==
    /\ cUrl = None
    /\ cNet = Response(0)
    /\ cValid = FALSE
    /\ cRes = NoCompletion
    /\ mUrls = <<>>
    /\ mNets = <<>>
    /\ mRes = NoBatch

CheckOne ==
    \E u \in Candidates, n \in NetOutcomes :
        /\ cUrl = None
        /\ cUrl' = u
        /\ cNet' = n
        /\ cValid' = isValidURL(u)
        /\ cRes' = checkIndexation(u, n)
        /\ mUrls' = <<>>
        /\ mNets' = <<>>
        /\ mRes' = NoBatch
        /\ UNCHANGED <<varsS, varsY>>

CheckMany ==
    \E k \in 0..MaxBatch :
      \E us \in [1..k -> BatchRecords], ns \in [1..k -> BatchNets] :
        /\ cUrl = None
        /\ mUrls' = us
        /\ mNets' = ns
        /\ mRes' = checkMultipleURLs(us, ns)
        /\ cUrl' = "batch"
        /\ cNet' = Response(0)
        /\ cValid' = FALSE
        /\ cRes' = NoCompletion
        /\ UNCHANGED <<varsS, varsY>>

\* ------------------------------------------------------------------------
\* URLModel: the table is the file data/urls.csv
\* ------------------------------------------------------------------------
\* The file does not exist, or holds the header line and one row per record.
Missing == [exists |-> FALSE, rows |-> <<>>]
File(rows) == [exists |-> TRUE, rows |-> rows]

\* a || b
Falsy(a) == a = Undefined \/ a = ""
Or(a, b) == IF Falsy(a) THEN b ELSE a

\* The cell csv-writer writes for a field: undefined, null and '' are all
\* written as the empty cell, any other string is read back as written.
Stringify(value) == IF value = Undefined \/ value = "" THEN "" ELSE value

\* URLModel.writeAllURLs: the file is replaced by the header and the records
writeAllURLs_DropLast(urls) ==
    File([i \in 1..(Len(urls) - 1) |->
            [URL |-> Stringify(urls[i].url),
             Status |-> Stringify(urls[i].status),
             LastCheckedDate |-> Stringify(urls[i].lastChecked),
             Notes |-> Stringify(urls[i].notes)]])

writeAllURLs(urls) ==
    File([i \in 1..Len(urls) |->
            [URL |-> Stringify(urls[i].url),
             Status |-> Stringify(urls[i].status),
             LastCheckedDate |-> Stringify(urls[i].lastChecked),
             Notes |-> Stringify(urls[i].notes)]])

\* The 'data' handler of readAllURLs.  The header names the columns URL,
\* Status, Last Checked Date and Notes, so row.url, row.status,
\* row.lastChecked and row.notes are undefined.
ParseRow(row) ==
    [url |-> Or(row.URL, Undefined),
     status |-> Or(Or(row.Status, Undefined), "Pending"),
     lastChecked |-> Or(Or(row.LastCheckedDate, Undefined), "Not yet checked"),
     notes |-> Or(Or(row.Notes, Undefined), "")]

\* URLModel.createSampleData: the seed list (30 records in the source, all
\* Pending; the model keeps one well-formed and one malformed URL)
sampleURLs ==
    << Record("https://a.example", "Pending", "Not yet checked", ""),
       Record("not-a-url-at-all", "Pending", "Not yet checked", "") >>

createSampleData == writeAllURLs(sampleURLs)

\* URLModel.readAllURLs with no I/O failure and nothing interleaved: the
\* file it leaves and the list it resolves with.
readAllURLs(file) ==
    LET f == IF ~file.exists THEN createSampleData ELSE file IN
    [file |-> f, urls |-> [i \in 1..Len(f.rows) |-> ParseRow(f.rows[i])]]

\* new Date().toLocaleString('en-IN', {timeZone: 'Asia/Kolkata'}) at time t
Timestamp(t) == "checked at " \o ToString(t)

\* URLModel.updateURLStatus with no I/O failure and nothing interleaved
UpdateMap_FirstOnly(urls, urlToUpdate, status, notes, t) ==
    [i \in 1..Len(urls) |->
        IF urls[i].url = urlToUpdate
           /\ \A j \in 1..(i - 1) : urls[j].url # urlToUpdate
        THEN [urls[i] EXCEPT !.status = status,
                             !.lastChecked = Timestamp(t),
                             !.notes = notes]
        ELSE urls[i]]

UpdateMap(urls, urlToUpdate, status, notes, t) ==
    [i \in 1..Len(urls) |->
        IF urls[i].url = urlToUpdate
        THEN [urls[i] EXCEPT !.status = status,
                             !.lastChecked = Timestamp(t),
                             !.notes = notes]
        ELSE urls[i]]

updateURLStatus(file, urlToUpdate, status, notes, t) ==
    LET read == readAllURLs(file)
        updatedUrls == UpdateMap(read.urls, urlToUpdate, status, notes, t)
    IN [file |-> writeAllURLs(updatedUrls), urls |-> updatedUrls]

\* ------------------------------------------------------------------------
\* Table operations in isolation: a record list is drawn; it is written or
\* the file is left absent, then the table is updated or not, then read.
\* ------------------------------------------------------------------------
MaxRecs == 3

StoreFields ==
    { <<"Indexed", "checked at 0", "HTTP 200 - Page accessible">>,
      <<"", "", "">>,
      <<Undefined, Undefined, Undefined>> }

StoreRecords ==
    { Record(u, f[1], f[2], f[3]) :
        u \in {"https://a.example", "http://b.example/page"}, f \in StoreFields }
      \cup { Record("", "Pending", "Not yet checked", "") }

UpdateKeys == {"https://a.example", "http://b.example/page", "https://other.example"}
UpdateStatuses == {"Not Indexed", ""}
UpdateNotes == {"", "HTTP 404 - Page not found"}
StoreTime == 1

NoArgs == [url |-> None, status |-> None, notes |-> None]

InitS ==
    /\ sFile = Missing
    /\ sInput = <<>>
    /\ sOp = <<>>
    /\ sBefore = <<>>
    /\ sOut = <<>>
    /\ sArgs = NoArgs

InitStore ==
    /\ sFile = Missing
    /\ sInput \in SeqsUpTo(StoreRecords, MaxRecs)
    /\ sOp = <<>>
    /\ sBefore = <<>>
    /\ sOut = <<>>
    /\ sArgs = NoArgs

StoreWrite ==
    /\ sOp = <<>>
    /\ sBefore' = readAllURLs(sFile).urls
    /\ sFile' = writeAllURLs(sInput)
    /\ sOut' = <<>>
    /\ sOp' = Append(sOp, "write")
    /\ UNCHANGED <<sInput, sArgs, varsC, varsY>>

StoreRead ==
    /\ sOp \in {<<>>, <<"write">>, <<"update">>, <<"write", "update">>}
    /\ sBefore' = readAllURLs(sFile).urls
    /\ sFile' = readAllURLs(sFile).file
    /\ sOut' = readAllURLs(sFile).urls
    /\ sOp' = Append(sOp, "read")
    /\ UNCHANGED <<sInput, sArgs, varsC, varsY>>

StoreUpdate ==
    \E k \in UpdateKeys, st \in UpdateStatuses, n \in UpdateNotes :
        /\ sOp \in {<<>>, <<"write">>}
        /\ sBefore' = readAllURLs(sFile).urls
        /\ sFile' = updateURLStatus(sFile, k, st, n, StoreTime).file
        /\ sOut' = updateURLStatus(sFile, k, st, n, StoreTime).urls
        /\ sArgs' = [url |-> k, status |-> st, notes |-> n]
        /\ sOp' = Append(sOp, "update")
        /\ UNCHANGED <<sInput, varsC, varsY>>

\* ------------------------------------------------------------------------
\* The running server: the scheduled cycle (performScheduledCheck), the
\* manual cycle (URLController.checkAllURLs) and an upload
\* (URLController.uploadCSV) interleave at their awaits.
\* ------------------------------------------------------------------------
Cycles == {"scheduled", "manual"}

\* what the network answers to the probes of a cycle
CycleNets ==
    { Response(200), Response(404), TransportError("ECONNRESET", Undefined) }

\* wall-clock readings
Times == {1}

\* String.prototype.trim on the cells of an uploaded file
Trim(cell) ==
    CASE cell = " https://a.example " -> "https://a.example"
      [] cell = "  "                  -> ""
      [] OTHER                        -> cell

\* the URL column of the uploaded file, row by row
UploadColumns ==
    { <<>>, <<"  ">>, <<"https://a.example">>,
      <<"not-a-url-at-all", "", " https://a.example ">> }

UploadRequests ==
    { [hasFile |-> FALSE, ext |-> Undefined, column |-> <<>>],
      [hasFile |-> TRUE, ext |-> ".txt", column |-> <<"https://a.example">>] }
      \cup { [hasFile |-> TRUE, ext |-> ".csv", column |-> c] : c \in UploadColumns }

MaxUploadURLs == 1000

\* the limit the rejection message of uploadCSV states to the client
StatedMaxURLs == 30

\* the record counts of the large uploaded files
UploadSizes ==
    { 1, 2, StatedMaxURLs - 1, StatedMaxURLs, StatedMaxURLs + 1,
      StatedMaxURLs + 2, MaxUploadURLs, MaxUploadURLs + 1 }

\* an uploaded file of n distinct URLs
LargeColumn(n) == [i \in 1..n |-> "https://a.example/" \o ToString(i)]

LargeUploadRequests ==
    { [hasFile |-> FALSE, ext |-> Undefined, column |-> <<>>],
      [hasFile |-> TRUE, ext |-> ".txt", column |-> LargeColumn(1)],
      [hasFile |-> TRUE, ext |-> ".csv", column |-> <<>>] }
      \cup { [hasFile |-> TRUE, ext |-> ".csv", column |-> LargeColumn(n)] :
                n \in UploadSizes }

\* `if (url && url.trim())` of the 'data' handler of uploadCSV
KeepsRow(url) == ~Falsy(url) /\ ~Falsy(Trim(url))

\* the 'data' handler of uploadCSV over the whole file
UploadRows(column) ==
    LET kept == SelectSeq(column, KeepsRow) IN
    [i \in 1..Len(kept) |-> Record(Trim(kept[i]), "Pending", "Not yet checked", "")]

\* urls.map((urlData, index) => ...) of performScheduledCheck, at wall-clock
\* time t
MergeResults_Unaligned(us, rs, t) ==
    [i \in 1..Len(us) |->
        [url |-> us[i].url,
         status |-> rs[1].status,
         lastChecked |-> Timestamp(t),
         notes |-> rs[1].notes]]

MergeResults(us, rs, t) ==
    [i \in 1..Len(us) |->
        [url |-> us[i].url,
         status |-> rs[i].status,
         lastChecked |-> Timestamp(t),
         notes |-> rs[i].notes]]

\* urls.map((urlData, index) => ...) of URLController.checkAllURLs
MergeResultsManual_KeepsDate(us, rs, t) ==
    [i \in 1..Len(us) |->
        [url |-> us[i].url,
         status |-> rs[i].status,
         lastChecked |-> us[i].lastChecked,
         notes |-> rs[i].notes]]

MergeResultsManual_Reversed(us, rs, t) ==
    [i \in 1..Len(us) |->
        [url |-> us[i].url,
         status |-> rs[Len(us) + 1 - i].status,
         lastChecked |-> Timestamp(t),
         notes |-> rs[Len(us) + 1 - i].notes]]

MergeResultsManual(us, rs, t) ==
    [i \in 1..Len(us) |->
        [url |-> us[i].url,
         status |-> rs[i].status,
         lastChecked |-> Timestamp(t),
         notes |-> rs[i].notes]]

\* updatedUrls of cycle p
updatedUrls(p, us, rs, t) ==
    IF p = "scheduled" THEN MergeResults(us, rs, t)
    ELSE MergeResultsManual(us, rs, t)

\* `if (urls.length === 0)` of performScheduledCheck
ScheduledSkips(us) == Len(us) = 0

\* `if (urls.length === 0)` of URLController.checkAllURLs
ManualSkips(us) == Len(us) = 0

\* cycle p ends at once, without probing or writing
Skips(p, us) == IF p = "scheduled" THEN ScheduledSkips(us) ELSE ManualSkips(us)

\* no writeAllURLs has resolved yet / the list the last one was given
NoWrite == [any |-> FALSE, urls |-> <<>>]
Written(urls) == [any |-> TRUE, urls |-> urls]

InitY ==
    /\ table = Missing
    /\ pc = [p \in Cycles |-> "idle"]
    /\ urlsOf = [p \in Cycles |-> <<>>]
    /\ resultsOf = [p \in Cycles |-> <<>>]
    /\ updatedOf = [p \in Cycles |-> <<>>]
    /\ upc = "idle"
    /\ upUrls = <<>>
    /\ lastWrite = NoWrite
    /\ inflight = [p \in Cycles |-> {}]

\* server start over a data/urls.csv that holds the header line only
InitEmpty ==
    /\ table = File(<<>>)
    /\ pc = [p \in Cycles |-> "idle"]
    /\ urlsOf = [p \in Cycles |-> <<>>]
    /\ resultsOf = [p \in Cycles |-> <<>>]
    /\ updatedOf = [p \in Cycles |-> <<>>]
    /\ upc = "idle"
    /\ upUrls = <<>>
    /\ lastWrite = NoWrite
    /\ inflight = [p \in Cycles |-> {}]

\* readAllURLs, fs.existsSync: the file is opened, or found absent
CycleStart(p) ==
    /\ pc[p] = "idle"
    /\ pc' = [pc EXCEPT ![p] = IF table.exists THEN "reading" ELSE "seeding"]
    /\ UNCHANGED <<table, urlsOf, resultsOf, updatedOf, upc, upUrls, lastWrite, inflight, varsC, varsS>>

\* createSampleData resolves; its then-callback calls readAllURLs again
SeedWrite(p) ==
    /\ pc[p] = "seeding"
    /\ table' = createSampleData
    /\ lastWrite' = Written(sampleURLs)
    /\ pc' = [pc EXCEPT ![p] = "reading"]
    /\ UNCHANGED <<urlsOf, resultsOf, updatedOf, upc, upUrls, inflight, varsC, varsS>>

\* createSampleData rejects: the promise chain has no rejection handler and
\* the promise readAllURLs returned is never settled
SeedFail(p) ==
    /\ pc[p] = "seeding"
    /\ pc' = [pc EXCEPT ![p] = "stuck"]
    /\ UNCHANGED <<table, urlsOf, resultsOf, updatedOf, upc, upUrls, lastWrite, inflight, varsC, varsS>>

\* the read stream ends: readAllURLs resolves; an empty list ends the cycle
ReadEnd(p) ==
    /\ pc[p] = "reading"
    /\ table.exists
    /\ LET read == [i \in 1..Len(table.rows) |-> ParseRow(table.rows[i])] IN
        /\ urlsOf' = [urlsOf EXCEPT ![p] = read]
        /\ pc' = [pc EXCEPT ![p] = IF Skips(p, read) THEN "done" ELSE "probing"]
    /\ UNCHANGED <<table, resultsOf, updatedOf, upc, upUrls, lastWrite, inflight, varsC, varsS>>

\* the read stream errors: readAllURLs rejects
ReadFail(p) ==
    /\ pc[p] = "reading"
    /\ pc' = [pc EXCEPT ![p] = "failed"]
    /\ UNCHANGED <<table, urlsOf, resultsOf, updatedOf, upc, upUrls, lastWrite, inflight, varsC, varsS>>

\* a turn of the loop of checkMultipleURLs begins: checkIndexation is called
\* on the next element and awaited
ProbeNext(p) ==
    /\ pc[p] = "probing"
    /\ inflight' = [inflight EXCEPT ![p] = @ \cup {Len(resultsOf[p]) + 1}]
    /\ pc' = [pc EXCEPT ![p] = "inflight"]
    /\ UNCHANGED <<table, urlsOf, resultsOf, updatedOf, upc, upUrls, lastWrite, varsC, varsS>>

\* the awaited checkIndexation settles: its result is pushed and the 500 ms
\* timer is set, or its exception ends checkMultipleURLs
ProbeReturn_WritesThrough(p) ==
    /\ pc[p] = "inflight"
    /\ \E i \in inflight[p], net \in CycleNets :
        LET urlData == urlsOf[p][i]
            result == checkIndexation(urlData.url, net)
        IN /\ inflight' = [inflight EXCEPT ![p] = @ \ {i}]
           /\ IF result.raised
              THEN /\ pc' = [pc EXCEPT ![p] = "failed"]
                   /\ resultsOf' = [resultsOf EXCEPT ![p] = <<>>]
                   /\ UNCHANGED <<updatedOf, table>>
              ELSE /\ pc' = [pc EXCEPT ![p] = "sleeping"]
                   /\ resultsOf' = [resultsOf EXCEPT ![p] =
                         Append(@, [url |-> urlData.url, status |-> result.status,
                                    notes |-> result.notes])]
                   /\ table' = updateURLStatus(table, urlData.url, result.status,
                                               result.notes, 1).file
                   /\ UNCHANGED updatedOf
    /\ UNCHANGED <<urlsOf, upc, upUrls, lastWrite, varsC, varsS>>

ProbeReturn_NoPause(p) ==
    /\ pc[p] = "inflight"
    /\ \E i \in inflight[p], net \in CycleNets :
        LET urlData == urlsOf[p][i]
            result == checkIndexation(urlData.url, net)
        IN /\ inflight' = [inflight EXCEPT ![p] = @ \ {i}]
           /\ IF result.raised
              THEN /\ pc' = [pc EXCEPT ![p] = "failed"]
                   /\ resultsOf' = [resultsOf EXCEPT ![p] = <<>>]
                   /\ UNCHANGED updatedOf
              ELSE /\ pc' = [pc EXCEPT ![p] =
                            IF Len(resultsOf[p]) + 1 < Len(urlsOf[p])
                            THEN "probing" ELSE "sleeping"]
                   /\ resultsOf' = [resultsOf EXCEPT ![p] =
                         Append(@, [url |-> urlData.url, status |-> result.status,
                                    notes |-> result.notes])]
                   /\ UNCHANGED updatedOf
    /\ UNCHANGED <<table, urlsOf, upc, upUrls, lastWrite, varsC, varsS>>

ProbeReturn(p) ==
    /\ pc[p] = "inflight"
    /\ \E i \in inflight[p], net \in CycleNets :
        LET urlData == urlsOf[p][i]
            result == checkIndexation(urlData.url, net)
        IN /\ inflight' = [inflight EXCEPT ![p] = @ \ {i}]
           /\ IF result.raised
              THEN /\ pc' = [pc EXCEPT ![p] = "failed"]
                   /\ resultsOf' = [resultsOf EXCEPT ![p] = <<>>]
                   /\ UNCHANGED updatedOf
              ELSE /\ pc' = [pc EXCEPT ![p] = "sleeping"]
                   /\ resultsOf' = [resultsOf EXCEPT ![p] =
                         Append(@, [url |-> urlData.url, status |-> result.status,
                                    notes |-> result.notes])]
                   /\ UNCHANGED updatedOf
    /\ UNCHANGED <<table, urlsOf, upc, upUrls, lastWrite, varsC, varsS>>

\* the 500 ms timer fires: next element, or the loop is over and the cycle
\* builds updatedUrls and calls writeAllURLs
Sleep(p) ==
    /\ pc[p] = "sleeping"
    /\ IF Len(resultsOf[p]) < Len(urlsOf[p])
       THEN /\ pc' = [pc EXCEPT ![p] = "probing"]
            /\ UNCHANGED updatedOf
       ELSE /\ pc' = [pc EXCEPT ![p] = "writing"]
            /\ \E t \in Times :
                 updatedOf' = [updatedOf EXCEPT ![p] =
                                    updatedUrls(p, urlsOf[p], resultsOf[p], t)]
    /\ UNCHANGED <<table, urlsOf, resultsOf, upc, upUrls, lastWrite, inflight, varsC, varsS>>

\* writeAllURLs resolves
WriteEnd_UnlessOverwritten(p) ==
    /\ pc[p] = "writing"
    /\ table' = IF table.exists /\ Len(table.rows) = Len(urlsOf[p])
                   /\ \A i \in 1..Len(urlsOf[p]) :
                         ParseRow(table.rows[i]) = urlsOf[p][i]
                THEN writeAllURLs(updatedOf[p]) ELSE table
    /\ lastWrite' = Written(updatedOf[p])
    /\ pc' = [pc EXCEPT ![p] = "done"]
    /\ UNCHANGED <<urlsOf, resultsOf, updatedOf, upc, upUrls, inflight, varsC, varsS>>

WriteEnd(p) ==
    /\ pc[p] = "writing"
    /\ table' = writeAllURLs(updatedOf[p])
    /\ lastWrite' = Written(updatedOf[p])
    /\ pc' = [pc EXCEPT ![p] = "done"]
    /\ UNCHANGED <<urlsOf, resultsOf, updatedOf, upc, upUrls, inflight, varsC, varsS>>

\* writeAllURLs rejects
WriteFail(p) ==
    /\ pc[p] = "writing"
    /\ pc' = [pc EXCEPT ![p] = "failed"]
    /\ UNCHANGED <<table, urlsOf, resultsOf, updatedOf, upc, upUrls, lastWrite, inflight, varsC, varsS>>

\* the cycle function returns: the summary is logged or the response sent
\* (done), the error is logged or passed to next() (failed)
CycleReturn(p) ==
    /\ pc[p] \in {"done", "failed"}
    /\ pc' = [pc EXCEPT ![p] = "idle"]
    /\ urlsOf' = [urlsOf EXCEPT ![p] = <<>>]
    /\ resultsOf' = [resultsOf EXCEPT ![p] = <<>>]
    /\ updatedOf' = [updatedOf EXCEPT ![p] = <<>>]
    /\ UNCHANGED <<table, upc, upUrls, lastWrite, inflight, varsC, varsS>>

\* POST /urls/upload up to its writeAllURLs: the multer file filter, then
\* uploadCSV parses the uploaded file
UploadFrom(requests) ==
    /\ upc = "idle"
    /\ \E req \in requests :
        LET parsed == UploadRows(req.column) IN
        IF ~req.hasFile \/ req.ext # ".csv" \/ Len(parsed) = 0
           \/ Len(parsed) > MaxUploadURLs
        THEN upc' = "rejected" /\ upUrls' = <<>>
        ELSE upc' = "writing" /\ upUrls' = parsed
    /\ UNCHANGED <<table, pc, urlsOf, resultsOf, updatedOf, lastWrite, inflight, varsC, varsS>>

UploadRequest == UploadFrom(UploadRequests)

\* the same request carrying one of the large files
UploadLarge == UploadFrom(LargeUploadRequests)

UploadWrite ==
    /\ upc = "writing"
    /\ table' = writeAllURLs(upUrls)
    /\ lastWrite' = Written(upUrls)
    /\ upc' = "accepted"
    /\ UNCHANGED <<pc, urlsOf, resultsOf, updatedOf, upUrls, inflight, varsC, varsS>>

UploadWriteFail ==
    /\ upc = "writing"
    /\ upc' = "failed"
    /\ UNCHANGED <<table, pc, urlsOf, resultsOf, updatedOf, upUrls, lastWrite, inflight, varsC, varsS>>

UploadReturn ==
    /\ upc \in {"accepted", "rejected", "failed"}
    /\ upc' = "idle"
    /\ upUrls' = <<>>
    /\ UNCHANGED <<table, pc, urlsOf, resultsOf, updatedOf, lastWrite, inflight, varsC, varsS>>

\* ------------------------------------------------------------------------
\* Specifications
\* ------------------------------------------------------------------------
Init == (InitY \/ InitEmpty) /\ InitC /\ InitS

Next ==
    \/ \E p \in Cycles : CycleStart(p)
    \/ \E p \in Cycles : SeedWrite(p)
    \/ \E p \in Cycles : SeedFail(p)
    \/ \E p \in Cycles : ReadEnd(p)
    \/ \E p \in Cycles : ReadFail(p)
    \/ \E p \in Cycles : ProbeNext(p)
    \/ \E p \in Cycles : ProbeReturn(p)
    \/ \E p \in Cycles : Sleep(p)
    \/ \E p \in Cycles : WriteEnd(p)
    \/ \E p \in Cycles : WriteFail(p)
    \/ \E p \in Cycles : CycleReturn(p)
    \/ UploadRequest
    \/ UploadWrite
    \/ UploadWriteFail
    \/ UploadReturn

Spec == Init /\ [][Next]_vars

InitClassify == InitY /\ InitC /\ InitS
NextClassify == CheckOne \/ CheckMany
SpecClassify == InitClassify /\ [][NextClassify]_vars

InitStoreRuns == InitY /\ InitC /\ InitStore
NextStore == StoreWrite \/ StoreRead \/ StoreUpdate
SpecStore == InitStoreRuns /\ [][NextStore]_vars

\* the upload handler alone, over files of every size around its limits
InitUpload == InitY /\ InitC /\ InitS
NextUpload == UploadLarge \/ UploadWrite \/ UploadWriteFail \/ UploadReturn
SpecUpload == InitUpload /\ [][NextUpload]_vars

\* ------------------------------------------------------------------------
\* Properties of the classifier (SpecClassify)
\* ------------------------------------------------------------------------
CalledOne == cUrl \notin {None, "batch"}
CalledMany == cUrl = "batch"
GotResponse(code) == CalledOne /\ cValid /\ cNet.kind = "response" /\ cNet.status = code

\* C2: checkIndexation never raises: whatever the url and whatever the probe
\* ends with (any response status, any thrown error, with or without a code
\* or a message), the call resolves with a {status, notes} result.
C2_NeverRaises ==
    CalledOne =>
        /\ ~cRes.raised
        /\ cRes.status \in {"Indexed", "Not Indexed", "Invalid URL"}
        /\ cRes.notes # Undefined

\* C3: checkMultipleURLs returns, for every input list (the empty one
\* included), a list of the same length whose i-th element carries the url of
\* the i-th input record and the classification of that url's probe.
C3_AlignedResults ==
    CalledMany =>
        /\ ~mRes.raised
        /\ Len(mRes.results) = Len(mUrls)
        /\ \A i \in 1..Len(mUrls) :
              /\ mRes.results[i].url = mUrls[i].url
              /\ mRes.results[i].status = checkIndexation(mUrls[i].url, mNets[i]).status
              /\ mRes.results[i].notes = checkIndexation(mUrls[i].url, mNets[i]).notes

\* C4: for a URL that passes isValidURL, a 200 response is classified
\* "Indexed" (the note carries the code), a 404 response "Not Indexed" with
\* the page-not-found note and a 403 response "Not Indexed" with the
\* access-forbidden note.
C4_KnownStatuses ==
    /\ GotResponse(200) =>
          /\ ~cRes.raised
          /\ cRes.status = "Indexed"
          /\ Includes(cRes.notes, "200")
    /\ GotResponse(404) =>
          cRes = Resolved("Not Indexed", "HTTP 404 - Page not found", 1)
    /\ GotResponse(403) =>
          cRes = Resolved("Not Indexed", "HTTP 403 - Access forbidden", 1)

C4_Witness ==
    /\ GotResponse(404)
    /\ cUrl = "http://b.example/page"
    /\ cRes.status = "Not Indexed"

\* C5 as claimed: for a URL that passes isValidURL, every response status
\* >= 400 other than 404 and 403, the 5xx ones included, is classified
\* "Not Indexed" with the client-error note and the code, and every remaining
\* status other than 200 "Not Indexed" with the unusual-status note and the
\* code.
C5_OtherStatuses_Claimed ==
    \A code \in Statuses \ {200, 403, 404} :
        GotResponse(code) =>
            IF code >= 400
            THEN cRes = Resolved("Not Indexed",
                                 "HTTP " \o ToString(code) \o " - Client error", 1)
            ELSE cRes = Resolved("Not Indexed",
                                 "HTTP " \o ToString(code) \o " - Unusual status", 1)

\* C5 amended: the client-error note is given to the statuses 400..499 other
\* than 404 and 403; a status >= 500 is refused by validateStatus, thrown by
\* the HTTP client and classified by the error path as "Not Indexed" with
\* the note "Error: Request failed with status code <code>"; every status
\* below 400 other than 200 gets the unusual-status note.
C5_OtherStatuses ==
    \A code \in Statuses \ {200, 403, 404} :
        GotResponse(code) =>
            IF code >= 500
            THEN cRes = Resolved("Not Indexed",
                                 "Error: Request failed with status code "
                                     \o ToString(code), 1)
            ELSE IF code >= 400
            THEN cRes = Resolved("Not Indexed",
                                 "HTTP " \o ToString(code) \o " - Client error", 1)
            ELSE cRes = Resolved("Not Indexed",
                                 "HTTP " \o ToString(code) \o " - Unusual status", 1)

C5_Witness ==
    /\ GotResponse(503)
    /\ cRes.notes = "Error: Request failed with status code 503"

\* The failure kinds of a transport error, in the order the handler tests them
HostNotFound(e) == e.code = "ENOTFOUND"
TimedOut(e) ==
    e.code = "ETIMEDOUT" \/ (e.message # Undefined /\ Includes(e.message, "timeout"))
Refused(e) == e.code = "ECONNREFUSED"
Malformed(e) == e.message # Undefined /\ Includes(e.message, "Invalid URL")

\* C6: on a transport failure the classification is decided by the failure
\* kind alone: host not found gives "Invalid URL" with the
\* domain-does-not-exist note, a timeout "Not Indexed" with the
\* connection-timeout note, connection refused "Invalid URL" with the
\* connection-refused note, a malformed-URL error "Invalid URL" with the
\* malformed-URL note, and every other error "Not Indexed" with "Error: "
\* and at most the first 50 characters of the message.
C6_TransportFailures ==
    (CalledOne /\ cValid /\ cNet.kind = "error") =>
        /\ ~cRes.raised
        /\ IF HostNotFound(cNet)
             THEN cRes = Resolved("Invalid URL", "DNS not found - Domain does not exist", 1)
           ELSE IF TimedOut(cNet)
             THEN cRes = Resolved("Not Indexed", "Connection timeout", 1)
           ELSE IF Refused(cNet)
             THEN cRes = Resolved("Invalid URL", "Connection refused", 1)
           ELSE IF Malformed(cNet)
             THEN cRes = Resolved("Invalid URL", "Malformed URL", 1)
           ELSE /\ cRes.status = "Not Indexed"
                /\ Len(cRes.notes) <= 7 + 50
                /\ \E n \in 0..50 : cRes.notes = "Error: " \o SubSeq(cNet.message, 1, n)
                /\ Len(cNet.message) <= 50 => cRes.notes = "Error: " \o cNet.message

\* C7: isValidURL is total and answers true exactly when the candidate
\* parses as a URL, its scheme is http or https and its host is neither
\* empty nor holds a space; no candidate of another scheme is valid.
C7_IsValidExactly ==
    CalledOne =>
        /\ cValid \in BOOLEAN
        /\ cValid <=> /\ ParseURL(cUrl).ok
                      /\ ParseURL(cUrl).protocol \in {"http:", "https:"}
                      /\ ParseURL(cUrl).hostname # ""
                      /\ ~Includes(ParseURL(cUrl).hostname, " ")
        /\ (ParseURL(cUrl).protocol \notin {"http:", "https:"}) => ~cValid

C7_Witness ==
    /\ CalledOne
    /\ cUrl = "ftp://wrong-scheme.com"
    /\ ParseURL(cUrl).ok
    /\ ~cValid

\* C8: for a url isValidURL refuses, checkIndexation resolves with status
\* "Invalid URL" and notes "Invalid URL format" and issues no request; a
\* request is issued only for a url that passed isValidURL, and at most once
\* per call.
C8_NoRequestWhenInvalid ==
    CalledOne =>
        /\ ~cValid => cRes = Resolved("Invalid URL", "Invalid URL format", 0)
        /\ cRes.requests <= 1
        /\ cRes.requests = 1 => cValid

C8_Witness ==
    /\ CalledOne
    /\ cUrl = "htp://wrong-protocol.com"
    /\ cNet = Response(200)
    /\ cRes.requests = 0
    /\ cRes.status = "Invalid URL"

\* ------------------------------------------------------------------------
\* Properties of the table operations (SpecStore)
\* ------------------------------------------------------------------------
Defaulted(value, default) == IF value = Undefined \/ value = "" THEN default ELSE value

\* C9 as claimed: writeAllURLs(records) followed by readAllURLs returns the
\* same records in the same order, for every record list, except that an
\* absent or empty status reads back as "Pending", an absent or empty
\* lastChecked as "Not yet checked" and absent notes as the empty string.
C9_RoundTrip_Claimed ==
    sOp = <<"write", "read">> =>
        /\ Len(sOut) = Len(sInput)
        /\ \A i \in 1..Len(sInput) :
              sOut[i] = [url |-> sInput[i].url,
                         status |-> Defaulted(sInput[i].status, "Pending"),
                         lastChecked |-> Defaulted(sInput[i].lastChecked, "Not yet checked"),
                         notes |-> Defaulted(sInput[i].notes, "")]

\* C9 amended: as claimed, except that also an empty url reads back as
\* absent (undefined).
C9_RoundTrip ==
    sOp = <<"write", "read">> =>
        /\ Len(sOut) = Len(sInput)
        /\ \A i \in 1..Len(sInput) :
              sOut[i] = [url |-> Defaulted(sInput[i].url, Undefined),
                         status |-> Defaulted(sInput[i].status, "Pending"),
                         lastChecked |-> Defaulted(sInput[i].lastChecked, "Not yet checked"),
                         notes |-> Defaulted(sInput[i].notes, "")]

C9_Witness ==
    /\ sOp = <<"write", "read">>
    /\ Len(sInput) = 3
    /\ sInput[1].url # sInput[2].url
    /\ sInput[1].status = Undefined /\ sOut[1].status = "Pending"
    /\ sInput[2].lastChecked = "" /\ sOut[2].lastChecked = "Not yet checked"
    /\ sInput[3].url = "" /\ sOut[3].url = Undefined

\* C10: updateURLStatus(url, status, notes) rewrites status, notes and
\* lastChecked of every record whose url equals the key, duplicates
\* included, and leaves every other record, every url, the number of
\* records and their order as they were; with no matching record the table
\* content is unchanged.  The table content is what readAllURLs returns
\* (an empty status argument is stored as the empty cell, which reads back
\* as "Pending").
C10_UpdateFrame ==
    (sOp # <<>> /\ sOp[Len(sOp)] = "update") =>
        LET after == readAllURLs(sFile).urls IN
        /\ Len(after) = Len(sBefore)
        /\ Len(sOut) = Len(sBefore)
        /\ sFile = writeAllURLs(sOut)
        /\ \A i \in 1..Len(sBefore) :
              /\ after[i].url = sBefore[i].url
              /\ sOut[i].url = sBefore[i].url
              /\ sBefore[i].url = sArgs.url =>
                    /\ sOut[i].status = sArgs.status
                    /\ sOut[i].notes = sArgs.notes
                    /\ sOut[i].lastChecked = Timestamp(StoreTime)
                    /\ after[i].status = Defaulted(sArgs.status, "Pending")
                    /\ after[i].notes = sArgs.notes
                    /\ after[i].lastChecked = Timestamp(StoreTime)
              /\ sBefore[i].url # sArgs.url =>
                    after[i] = sBefore[i] /\ sOut[i] = sBefore[i]
        /\ (\A i \in 1..Len(sBefore) : sBefore[i].url # sArgs.url) => after = sBefore

C10_Witness ==
    /\ sOp = <<"write", "update">>
    /\ Len(sBefore) = 3
    /\ sBefore[1].url = sArgs.url
    /\ sBefore[2].url # sArgs.url
    /\ sBefore[3].url = sArgs.url
    /\ sBefore[3].status # sArgs.status
    /\ readAllURLs(sFile).urls[3].status = sArgs.status

\* ------------------------------------------------------------------------
\* Properties of the running server (Spec)
\* ------------------------------------------------------------------------
\* a step of cycle p
CycleMoves(p) == pc'[p] # pc[p]

\* the writeAllURLs of cycle p, issued once every probe has completed
FinalWrite(p) ==
    /\ pc[p] = "writing"
    /\ pc'[p] = "done"
    /\ Len(resultsOf[p]) = Len(urlsOf[p])
    /\ table' = writeAllURLs(updatedOf[p])

\* the writeAllURLs of createSampleData inside the readAllURLs of cycle p
SeedingWrite(p) ==
    /\ pc[p] = "seeding"
    /\ pc'[p] = "reading"
    /\ resultsOf[p] = <<>>
    /\ table' = createSampleData

\* C1 as claimed: a cycle modifies the table only in a single writeAllURLs
\* step taken after every probe of the cycle has completed; a cycle that
\* fails has left the table as it was.
C1_CycleAtomic_Claimed ==
    [][\A p \in Cycles : (CycleMoves(p) /\ table' # table) => FinalWrite(p)]_vars

\* C1 amended: a cycle modifies the table only (a) inside its readAllURLs,
\* before any probe, by writing the seed list when it found the file absent,
\* and (b) in the single writeAllURLs step taken after every probe has
\* completed; every other step of a cycle, a failing one included, leaves
\* the table as it is.
C1_CycleAtomic ==
    [][\A p \in Cycles :
          (CycleMoves(p) /\ table' # table) => (FinalWrite(p) \/ SeedingWrite(p))]_vars

C1_Witness ==
    /\ pc["manual"] = "done"
    /\ Len(updatedOf["manual"]) = 2
    /\ table = writeAllURLs(updatedOf["manual"])
    /\ updatedOf["manual"][1].status = "Indexed"
    /\ pc["scheduled"] = "failed"
    /\ urlsOf["scheduled"] # <<>>

\* ------------------------------------------------------------------------
\* Failures of the store inside a cycle
\* ------------------------------------------------------------------------
\* a cycle whose readAllURLs can no longer be settled by anything
ReadPendingForever(p) == pc[p] = "stuck"

\* C11: an I/O failure during readAllURLs or writeAllURLs, a failure of the
\* seeding inside readAllURLs included, reaches the caller as a failure of
\* that call: no cycle is ever left with a readAllURLs that stays pending
\* forever.
C11_FailuresReachCaller == \A p \in Cycles : ~ReadPendingForever(p)

\* ------------------------------------------------------------------------
\* The two cycles compared
\* ------------------------------------------------------------------------
\* a record list without the wall-clock readings
Core(us) ==
    [i \in 1..Len(us) |->
        [url |-> us[i].url, status |-> us[i].status, notes |-> us[i].notes]]

\* cycle p has built its updatedUrls
Merged(p) == pc[p] \in {"writing", "done"} /\ urlsOf[p] # <<>>

\* both cycles started from the same table contents and got the same probe
\* outcomes
SameRun ==
    /\ Merged("scheduled") /\ Merged("manual")
    /\ urlsOf["scheduled"] = urlsOf["manual"]
    /\ resultsOf["scheduled"] = resultsOf["manual"]

\* cycle p read an empty table in this step
ReadsEmpty(p) ==
    /\ pc[p] = "reading" /\ pc'[p] \notin {"reading", "failed"}
    /\ table.rows = <<>>

\* C12: the manual and the scheduled cycle are the same cycle: from the same
\* table contents and the same probe outcomes both build the same records
\* in the same order (each stamped with a reading of the clock), each writes
\* exactly the list it built, and each ends without a write when it read an
\* empty table.
C12_SameCycle ==
    /\ [](SameRun =>
            /\ Core(updatedOf["scheduled"]) = Core(updatedOf["manual"])
            /\ \A p \in Cycles : \A i \in 1..Len(updatedOf[p]) :
                 updatedOf[p][i].lastChecked \in {Timestamp(t) : t \in Times})
    /\ [][\A p \in Cycles :
            /\ (pc[p] = "writing" /\ pc'[p] = "done")
                  => table' = writeAllURLs(updatedOf[p])
            /\ ReadsEmpty(p)
                  => /\ pc'[p] = "done"
                     /\ table' = table
                     /\ lastWrite' = lastWrite
                     /\ updatedOf'[p] = <<>>]_vars

C12_Witness ==
    /\ SameRun
    /\ pc["scheduled"] = "done" /\ pc["manual"] = "done"
    /\ Len(urlsOf["manual"]) = 2
    /\ updatedOf["manual"][1].status # updatedOf["manual"][2].status

\* both cycles have ended at once on the empty table
C12_BothSkipped ==
    \A p \in Cycles : pc[p] = "done" /\ urlsOf[p] = <<>> /\ table = File(<<>>)

\* ------------------------------------------------------------------------
\* Overlapping writers
\* ------------------------------------------------------------------------
\* no cycle and no upload is under way
AllFinished ==
    /\ \A p \in Cycles : pc[p] \in {"idle", "done", "failed"}
    /\ upc \in {"idle", "accepted", "rejected", "failed"}

\* C13: writers may overlap, and once every cycle and upload has finished
\* the table is exactly the record list given to the writeAllURLs that
\* resolved last, whatever the earlier writers wrote.
C13_LastWriteWins ==
    (AllFinished /\ lastWrite.any) => table = writeAllURLs(lastWrite.urls)

\* both cycles read the table before either wrote it, both have written, and
\* the table is the manual cycle's list: the scheduled cycle's results are
\* lost
C13_Witness ==
    /\ pc["scheduled"] = "done" /\ pc["manual"] = "done"
    /\ upc = "idle"
    /\ updatedOf["scheduled"] # <<>> /\ updatedOf["manual"] # <<>>
    /\ \A p \in Cycles : \A i \in 1..Len(urlsOf[p]) :
          urlsOf[p][i].status = "Pending"
    /\ lastWrite = Written(updatedOf["manual"])
    /\ table = writeAllURLs(updatedOf["manual"])
    /\ table # writeAllURLs(updatedOf["scheduled"])

\* an upload was accepted while a cycle was between its read and its write,
\* and that cycle's write has replaced the uploaded list
C13_UploadLost ==
    /\ upc = "accepted"
    /\ pc["manual"] = "done" /\ updatedOf["manual"] # <<>>
    /\ Core(updatedOf["manual"]) # Core(upUrls)
    /\ Len(updatedOf["manual"]) # Len(upUrls)
    /\ table = writeAllURLs(updatedOf["manual"])

\* ------------------------------------------------------------------------
\* Uploads
\* ------------------------------------------------------------------------
\* the record list an accepted upload of the request writes
Uploaded(req) == UploadRows(req.column)

\* the request is one the upload must reject, the limit being lim records
Rejectable(req, lim) ==
    \/ ~req.hasFile
    \/ req.ext # ".csv"
    \/ Len(Uploaded(req)) = 0
    \/ Len(Uploaded(req)) > lim

\* the upload rules with the record limit lim: a rejected request leaves
\* the table as it is, an accepted one is none of the rejectable requests
\* and replaces the table with its records, all Pending
UploadRules(lim) ==
    /\ (upc = "idle" /\ upc' = "rejected") => table' = table
    /\ (upc = "idle" /\ upc' = "writing") =>
          /\ table' = table
          /\ \E req \in LargeUploadRequests :
                /\ ~Rejectable(req, lim)
                /\ upUrls' = Uploaded(req)
          /\ \A i \in 1..Len(upUrls') :
                /\ upUrls'[i].status = "Pending"
                /\ upUrls'[i].lastChecked = "Not yet checked"
                /\ upUrls'[i].notes = ""
    /\ (upc = "writing" /\ upc' = "accepted") => table' = writeAllURLs(upUrls)

\* C14: an upload is rejected, the table unchanged, when no file is given,
\* the file is not a .csv file, it yields no URL, or it yields more records
\* than the maximum the rejection message states (30); an accepted upload
\* replaces the whole table with one Pending record per non-blank URL of the
\* file, in file order.
C14_UploadRules == [][UploadRules(StatedMaxURLs)]_vars

\* the same rules with the limit the code compares against
C14_UploadRulesOfCode == [][UploadRules(MaxUploadURLs)]_vars

\* an upload of more records than the stated maximum has been accepted
C14_OverLimitAccepted ==
    upc = "accepted" /\ Len(upUrls) > StatedMaxURLs
      /\ table = writeAllURLs(upUrls)

\* ------------------------------------------------------------------------
\* The order of the probes of one checkMultipleURLs call
\* ------------------------------------------------------------------------
\* a checkIndexation call of cycle p starts in this step
ProbeStarts(p) == inflight'[p] \ inflight[p] # {}

\* C15: within one checkMultipleURLs call the probes run one at a time in
\* input order: at most one is in flight, it is the probe of the element
\* after those whose results are in, a probe starts only when none is in
\* flight, and between the return of one probe and the start of the next
\* lies the 500 ms pause.
C15_Sequential ==
    /\ [](\A p \in Cycles :
            /\ Cardinality(inflight[p]) <= 1
            /\ inflight[p] # {} => inflight[p] = {Len(resultsOf[p]) + 1}
            /\ Len(resultsOf[p]) <= Len(urlsOf[p])
            /\ \A i \in 1..Len(resultsOf[p]) :
                  resultsOf[p][i].url = urlsOf[p][i].url)
    /\ [][\A p \in Cycles :
            /\ ProbeStarts(p) => pc[p] = "probing" /\ inflight[p] = {}
            /\ (pc[p] = "inflight" /\ pc'[p] # "inflight")
                  => pc'[p] \in {"sleeping", "failed"} /\ inflight'[p] = {}
            /\ (pc[p] # "probing" /\ pc'[p] = "probing")
                  => \/ pc[p] = "reading" /\ resultsOf[p] = <<>>
                     \/ pc[p] = "sleeping"]_vars

\* the probe of the second element is in flight, the first result is in
C15_Witness ==
    /\ pc["manual"] = "inflight"
    /\ inflight["manual"] = {2}
    /\ Len(resultsOf["manual"]) = 1

\* ------------------------------------------------------------------------
\* What a completed cycle writes
\* ------------------------------------------------------------------------
\* status and notes of the row are a classification of the url
ClassifiedAs(url, row) ==
    \E net \in CycleNets :
        LET c == checkIndexation(url, net) IN
        /\ ~c.raised
        /\ row.Status = c.status
        /\ row.Notes = Stringify(c.notes)

\* the readAllURLs of cycle p resolves in this step
ReadResolves(p) == pc[p] = "reading" /\ pc'[p] \in {"probing", "done"}

\* C16: a completed cycle preserves the table's keys and row order: the list
\* it read has one record per row of the table with that row's url, and the
\* table it writes has as many rows as that list, row i carrying the
\* unmodified url of record i with a status and notes that classify that
\* same url.
C16_KeysAndOrderKept ==
    [][\A p \in Cycles :
         /\ ReadResolves(p) =>
               /\ Len(urlsOf'[p]) = Len(table.rows)
               /\ \A i \in 1..Len(table.rows) :
                     urlsOf'[p][i].url = table.rows[i].URL
         /\ (pc[p] = "writing" /\ pc'[p] = "done") =>
               /\ Len(table'.rows) = Len(urlsOf[p])
               /\ \A i \in 1..Len(urlsOf[p]) :
                     /\ table'.rows[i].URL = urlsOf[p][i].url
                     /\ ClassifiedAs(urlsOf[p][i].url, table'.rows[i])]_vars

\* a cycle over two records with different classifications has written
C16_Witness ==
    /\ pc["manual"] = "done"
    /\ Len(urlsOf["manual"]) = 2
    /\ table = writeAllURLs(updatedOf["manual"])
    /\ table.rows[1].Status = "Indexed"
    /\ table.rows[2].Status = "Invalid URL"

\* ------------------------------------------------------------------------
\* The statuses of the table
\* ------------------------------------------------------------------------
TableStatuses == {"Pending", "Indexed", "Not Indexed", "Invalid URL"}

\* the records of the table as readAllURLs returns them
TableRecords == [i \in 1..Len(table.rows) |-> ParseRow(table.rows[i])]

\* C17: in every state of the table reached through seeding, uploads and
\* cycles each record's status is Pending, Indexed, Not Indexed or
\* Invalid URL, a record is Pending exactly when its lastChecked is
\* "Not yet checked", and the list a completed cycle has written holds no
\* Pending record.
C17_StatusesOfTable ==
    /\ \A i \in 1..Len(TableRecords) :
          /\ TableRecords[i].status \in TableStatuses
          /\ TableRecords[i].status = "Pending"
                <=> TableRecords[i].lastChecked = "Not yet checked"
    /\ \A p \in Cycles : \A i \in 1..Len(updatedOf[p]) :
          /\ updatedOf[p][i].status \in TableStatuses \ {"Pending"}
          /\ updatedOf[p][i].lastChecked # "Not yet checked"

\* a cycle has replaced the Pending records of an upload by checked ones
C17_Witness ==
    /\ pc["scheduled"] = "done"
    /\ urlsOf["scheduled"] # <<>>
    /\ \A i \in 1..Len(urlsOf["scheduled"]) :
          urlsOf["scheduled"][i].status = "Pending"
    /\ table = writeAllURLs(updatedOf["scheduled"])
    /\ \A i \in 1..Len(TableRecords) : TableRecords[i].status # "Pending"

\* every status checkIndexation can resolve with, over all network outcomes
C17_ClassifierStatuses ==
    (CalledOne /\ ~cRes.raised) => cRes.status \in TableStatuses \ {"Pending"}

\* ------------------------------------------------------------------------
\* Termination of a cycle
\* ------------------------------------------------------------------------
\* what cycle p can do next: a step of the store or of a probe on which it
\* waits, or its own return
CycleStep(p) ==
    \/ SeedWrite(p) \/ SeedFail(p)
    \/ ReadEnd(p) \/ ReadFail(p)
    \/ ProbeNext(p) \/ ProbeReturn(p) \/ Sleep(p)
    \/ WriteEnd(p) \/ WriteFail(p)
    \/ CycleReturn(p)

\* C18: every started cycle over a finite table finishes, by writing the
\* table or by reporting an error: as long as it has not returned, the store
\* operation, the probe or the pause it waits for can still end, and the
\* results it holds never outnumber the records it read, so no cycle waits
\* forever on a probe or on the store.
C18_CyclesFinish ==
    \A p \in Cycles :
        /\ pc[p] # "idle" => ENABLED CycleStep(p)
        /\ Len(resultsOf[p]) <= Len(urlsOf[p])

\* the same property of every cycle whose seeding has not failed
C18_FinishUnlessSeedingFailed ==
    \A p \in Cycles :
        /\ pc[p] \notin {"idle", "stuck"} => ENABLED CycleStep(p)
        /\ Len(resultsOf[p]) <= Len(urlsOf[p])

====
